---- MODULE Spec2Model ----
(***************************************************************************)
(* A model of das_extractor.py: the DASGIP archive pipeline                *)
(*   read_daszip -> convert_daszip_2_dasdict -> convert_dasdict_2_cdf_dict *)
(*   -> export_*                                                           *)
(* Each component has its own specification (SpecSplit, SpecCsv,           *)
(* SpecNames, SpecEvents, SpecMerge, SpecBatch); the variables of the      *)
(* other components stay at their idle value.                              *)
(*                                                                         *)
(* Data conventions.  A str is a TLA+ string.  A nullable cell is NaN      *)
(* (the empty tuple) or Val(v) (a one-element tuple).  A DataFrame is a    *)
(* record [columns |-> sequence of names, rows |-> sequence of rows],      *)
(* a row being a sequence of cells as long as columns.                     *)
(***************************************************************************)
EXTENDS Integers, Sequences, FiniteSets, TLC

VARIABLES
    \* convert_daszip_2_dasdict
    sections_list, overwriting_risk, setup_number, sections_dict,
    split_warnings, split_log, split_pc,
    \* h_parse_irregular_csv
    irregular_csv, csv_df,
    \* h_standardize_das_cdf_cols_names
    cols_in, cols_names, names_pc,
    \* h_extract_volume_changes
    events_df, new_events_df,
    \* convert_dasdict_2_cdf_dict
    dasdict, new_cdf_dict,
    \* export_all
    export_format, daszip_list, batch_i, exported, batch_pc

varsSplit  == <<sections_list, overwriting_risk, setup_number, sections_dict,
                split_warnings, split_log, split_pc>>
varsCsv    == <<irregular_csv, csv_df>>
varsNames  == <<cols_in, cols_names, names_pc>>
varsEvents == <<events_df, new_events_df>>
varsMerge  == <<dasdict, new_cdf_dict>>
varsBatch  == <<export_format, daszip_list, batch_i, exported, batch_pc>>
vars == <<varsSplit, varsCsv, varsNames, varsEvents, varsMerge, varsBatch>>

(***************************************************************************)
(* Values                                                                  *)
(***************************************************************************)
NaN == << >>
Val(v) == << v >>
IsNull(c) == c = NaN

Min(a, b) == IF a <= b THEN a ELSE b
Max(a, b) == IF a >= b THEN a ELSE b

\* The result of a call that raised: the exception's class.
Raised(e) == [err |-> e]
HasRaised(r) == "err" \in DOMAIN r

(***************************************************************************)
(* Python str operations                                                   *)
(***************************************************************************)
\* s[i] for a 1-based position i
CharAt(s, i) == SubSeq(s, i, i)
\* s[:n]
Prefix(s, n) == SubSeq(s, 1, Min(n, Len(s)))
\* s[-1]
LastChar(s) == SubSeq(s, Len(s), Len(s))
\* s[:-1]
DropLast(s) == SubSeq(s, 1, Len(s) - 1)
\* s.startswith(p)
StartsWith(s, p) == Len(s) >= Len(p) /\ SubSeq(s, 1, Len(p)) = p
\* p in s
Contains(s, p) ==
    \E i \in 1..(Len(s) - Len(p) + 1) : SubSeq(s, i, i + Len(p) - 1) = p

\* s.strip(chars): drop the leading and trailing characters that are in chars
RECURSIVE LStripChars(_, _)
LStripChars(s, chars) ==
    IF Len(s) > 0 /\ CharAt(s, 1) \in chars
    THEN LStripChars(SubSeq(s, 2, Len(s)), chars)
    ELSE s
RECURSIVE RStripChars(_, _)
RStripChars(s, chars) ==
    IF Len(s) > 0 /\ LastChar(s) \in chars
    THEN RStripChars(DropLast(s), chars)
    ELSE s
StripChars(s, chars) == RStripChars(LStripChars(s, chars), chars)

\* The position of the first occurrence of the character c in s at or after
\* position i, or 0
RECURSIVE FindChar(_, _, _)
FindChar(s, c, i) ==
    IF i > Len(s) THEN 0
    ELSE IF CharAt(s, i) = c THEN i
    ELSE FindChar(s, c, i + 1)

\* s.split(sep) for a one-character sep; also the fields of an unquoted csv line
RECURSIVE SplitOn(_, _)
SplitOn(s, sep) ==
    LET p == FindChar(s, sep, 1)
    IN  IF p = 0 THEN << s >>
        ELSE << SubSeq(s, 1, p - 1) >> \o SplitOn(SubSeq(s, p + 1, Len(s)), sep)

Digits == {"0", "1", "2", "3", "4", "5", "6", "7", "8", "9"}
Whitespace == {" "}

(***************************************************************************)
(* csv rows and pandas.read_csv                                            *)
(***************************************************************************)
\* One row of csv.reader(lines, delimiter=';'): an empty line is the empty row
csv_reader_row(line) == IF line = "" THEN << >> ELSE SplitOn(line, ";")

RECURSIVE MaxLen(_)
MaxLen(rows) ==
    IF rows = << >> THEN 0 ELSE Max(Len(Head(rows)), MaxLen(Tail(rows)))

\* A row's cells against n columns: missing trailing cells are NaN
PadRow(fields, n) ==
    [k \in 1..n |-> IF k <= Len(fields) /\ fields[k] # "" THEN Val(fields[k]) ELSE NaN]

\* The lines pandas parses: blank lines are skipped (skip_blank_lines=True)
NonBlank(lines) == SelectSeq(lines, LAMBDA l : l # "")

\* pd.read_csv(StringIO('\n'.join(content)), sep=';'), the first line the header.
\*   no line at all: EmptyDataError ("No columns to parse from file");
\*   the first data row sets the expected width when longer than the header
\*   (its leading cells become the index); a later row wider than that:
\*   ParserError ("Expected n fields in line k, saw m").
read_csv(content) ==
    LET lines  == NonBlank(content)
        header == SplitOn(lines[1], ";")
        data   == [k \in 1..(Len(lines) - 1) |-> SplitOn(lines[k + 1], ";")]
        width  == IF data = << >> THEN Len(header)
                  ELSE Max(Len(header), Len(data[1]))
        lead   == width - Len(header)
    IN  IF lines = << >> THEN Raised("EmptyDataError")
        ELSE IF \E k \in DOMAIN data : Len(data[k]) > width THEN Raised("ParserError")
        ELSE [columns |-> header,
              index   |-> [k \in DOMAIN data |-> SubSeq(PadRow(data[k], width), 1, lead)],
              rows    |-> [k \in DOMAIN data |->
                              SubSeq(PadRow(data[k], width), lead + 1, width)]]

\* pd.read_csv(..., names=names, sep=';', skiprows=1): the first line is dropped
\* and every other line is a data row against the given names.
read_csv_names(content, names) ==
    LET lines == NonBlank(Tail(content))
        data  == [k \in 1..Len(lines) |-> SplitOn(lines[k], ";")]
    IN  IF \E k \in DOMAIN data : Len(data[k]) > Len(names) THEN Raised("ParserError")
        ELSE [columns |-> names,
              index   |-> [k \in DOMAIN data |-> << >>],
              rows    |-> [k \in DOMAIN data |-> PadRow(data[k], Len(names))]]

(***************************************************************************)
(* h_parse_irregular_csv                                                   *)
(***************************************************************************)
\* max(len(row) for row in reader), the header already consumed
num_cols_first(rows) == Len(rows[1])
num_cols(rows) == MaxLen(rows)

\* [f'unknown{i + 1}' for i in range(n)]; range(n) is empty for n <= 0
unknown_names(n) == [i \in 1..n |-> "unknown" \o ToString(i)]

h_parse_irregular_csv(lines) ==
    LET reader == [k \in 1..Len(lines) |-> csv_reader_row(lines[k])]
        header == Head(reader)
        rest   == Tail(reader)
        names  == header \o unknown_names(num_cols(rest) - Len(header))
    IN  IF lines = << >> THEN Raised("StopIteration")
        ELSE IF rest = << >> THEN Raised("ValueError")
        ELSE read_csv_names(lines, names)

(***************************************************************************)
(* h_standardize_das_cdf_cols_names                                        *)
(***************************************************************************)
\* The micro sign of the two Level names is written u.
das_converter_dict ==
    << <<"Inoculation Time []", "InoculationTime []">>,
       <<"pH.Out []", "pH.Out [%]">>,
       <<"CTR [mM/h]", "CTR.PV [mMol/h]">>,
       <<"RQ []", "RQ.PV []">>,
       <<"AU []", "ODAU.PV []">>,
       <<"CX []", "ODCX.PV []">>,
       <<"Level.PV [uS]", "Lvl.PV [uS]">>,
       <<"MA.PV [g]", "BalA.MPV [g]">>,
       <<"MB.PV [g]", "BalB.MPV [g]">>,
       <<"Torque.PV [mNm]", "N.TStirPV [mNm]">>,
       <<"Offline.A []", "OfflineA.OfflineA []">>,
       <<"Offline.B []", "OfflineB.OfflineB []">>,
       <<"Offline.C []", "OfflineC.OfflineC []">>,
       <<"Offline.D []", "OfflineD.OfflineD []">>,
       <<"OTR [mM/h]", "OTR.PV [mMol/h]">>,
       <<"V.PV [mL]", "V.VPV [mL]">> >>

\* re.sub(r"Unit [0-9]\.", "", s)
RECURSIVE sub_unit_prefix(_)
sub_unit_prefix(s) ==
    IF s = "" THEN ""
    ELSE IF /\ Len(s) >= 7
            /\ SubSeq(s, 1, 5) = "Unit "
            /\ CharAt(s, 6) \in Digits
            /\ CharAt(s, 7) = "."
         THEN sub_unit_prefix(SubSeq(s, 8, Len(s)))
         ELSE CharAt(s, 1) \o sub_unit_prefix(SubSeq(s, 2, Len(s)))

\* re.sub(r"\s?[0-9]\.", ".", s)
RECURSIVE sub_digit_dot_keep(_)
sub_digit_dot_keep(s) ==
    IF s = "" THEN ""
    ELSE IF Len(s) >= 2 /\ CharAt(s, 1) \in Digits /\ CharAt(s, 2) = "."
         THEN "." \o sub_digit_dot_keep(SubSeq(s, 3, Len(s)))
         ELSE CharAt(s, 1) \o sub_digit_dot_keep(SubSeq(s, 2, Len(s)))
RECURSIVE sub_digit_dot(_)
sub_digit_dot(s) ==
    IF s = "" THEN ""
    ELSE IF /\ Len(s) >= 3
            /\ CharAt(s, 1) \in Whitespace
            /\ CharAt(s, 2) \in Digits
            /\ CharAt(s, 3) = "."
         THEN "." \o sub_digit_dot(SubSeq(s, 4, Len(s)))
    ELSE IF Len(s) >= 2 /\ CharAt(s, 1) \in Digits /\ CharAt(s, 2) = "."
         THEN "." \o sub_digit_dot(SubSeq(s, 3, Len(s)))
         ELSE CharAt(s, 1) \o sub_digit_dot(SubSeq(s, 2, Len(s)))

\* re.sub(r"[0-9]\s\[", " [", s)
RECURSIVE sub_digit_bracket(_)
sub_digit_bracket(s) ==
    IF s = "" THEN ""
    ELSE IF /\ Len(s) >= 3
            /\ CharAt(s, 1) \in Digits
            /\ CharAt(s, 2) \in Whitespace
            /\ CharAt(s, 3) = "["
         THEN " [" \o sub_digit_bracket(SubSeq(s, 4, Len(s)))
         ELSE CharAt(s, 1) \o sub_digit_bracket(SubSeq(s, 2, Len(s)))

\* Series.replace(das_converter_dict): a value equal to a key becomes its value
dict_replace(s) ==
    IF \E k \in DOMAIN das_converter_dict : das_converter_dict[k][1] = s
    THEN das_converter_dict[CHOOSE k \in DOMAIN das_converter_dict :
                                das_converter_dict[k][1] = s][2]
    ELSE s

MapSeq(f(_), seq) == [k \in DOMAIN seq |-> f(seq[k])]

h_standardize_das_cdf_cols_names(names) ==
    MapSeq(dict_replace,
        MapSeq(sub_digit_bracket,
            MapSeq(sub_digit_dot,
                MapSeq(sub_unit_prefix, names))))

(***************************************************************************)
(* convert_daszip_2_dasdict: the loop over the sections of the file        *)
(***************************************************************************)
\* The sections a file is made of here: a section is the list of its lines
\* (section.lstrip().split("\r\n")), the first one the bracketed name.
SectionPool ==
    { << "[Setups]", "a;b", "1;2" >>,
      << "[Setup1]", "a;b", "1;2" >>,
      << "[Setup2]", "a;b", "3;4" >>,
      << "[Device]", "a;b", "5;6" >>,
      << "[Device]", "a;b" >>,
      << "[Device]" >>,
      << "[Device]", "a;b", "1;2", "1;2;3" >>,
      << "[Profiles]", "a;b", "1;2" >>,
      << "[TrackData1]", "Timestamp;Unit 1.pH1.Out [%]", "1;7" >> }

MaxSections == 5

\* One pass of the loop body (lines 74-109) on one section, from the flag
\* overwriting_risk as the previous pass left it.
section_step(section, risk) ==
    LET name0    == StripChars(section[1], {"[", "\"", "]"})
        number0  == ""
        name1    == IF risk THEN name0 \o number0 ELSE name0
        is_setup == Prefix(name1, 5) = "Setup" /\ name1 # "Setups"
        number1  == IF is_setup THEN LastChar(name1) ELSE number0
        warned   == is_setup /\ risk
        name2    == IF warned THEN DropLast(name1) ELSE name1
        risk1    == IF is_setup THEN TRUE ELSE risk
        risk2    == IF Prefix(name2, 8) = "Profiles" THEN FALSE ELSE risk1
        content  == Tail(section)
        parsed   == read_csv(content)
        df       == IF HasRaised(parsed)
                    THEN IF parsed.err = "ParserError"
                         THEN h_parse_irregular_csv(content)
                         ELSE parsed
                    ELSE IF StartsWith(name2, "TrackData")
                         THEN [parsed EXCEPT
                                 !.columns = h_standardize_das_cdf_cols_names(@)]
                         ELSE parsed
    IN  [section_name |-> name2, setup_number |-> number1, warned |-> warned,
         overwriting_risk |-> risk2, df |-> df]

dict_set(d, key, value) ==
    [k \in DOMAIN d \cup {key} |-> IF k = key THEN value ELSE d[k]]

InitSplitVars ==
    /\ sections_list = << >>
    /\ overwriting_risk = FALSE
    /\ setup_number = ""
    /\ sections_dict = << >>
    /\ split_warnings = 0
    /\ split_log = << >>
    /\ split_pc = "loop"

\* The loop body on the next section of the file, whichever it is.
ProcessSection ==
    /\ split_pc = "loop"
    /\ Len(sections_list) < MaxSections
    /\ \E section \in SectionPool :
         LET r == section_step(section, overwriting_risk)
         IN  /\ sections_list' = Append(sections_list, section)
             /\ overwriting_risk' = r.overwriting_risk
             /\ setup_number' = r.setup_number
             /\ split_warnings' = split_warnings + (IF r.warned THEN 1 ELSE 0)
             /\ sections_dict' = IF HasRaised(r.df) THEN sections_dict
                                 ELSE dict_set(sections_dict, r.section_name, r.df)
             /\ split_log' = Append(split_log,
                    [risk_before |-> overwriting_risk,
                     risk_after  |-> r.overwriting_risk,
                     key         |-> r.section_name,
                     number      |-> r.setup_number,
                     warned      |-> r.warned,
                     stored      |-> ~HasRaised(r.df)])
             /\ split_pc' = IF HasRaised(r.df) /\ r.df.err # "EmptyDataError"
                            THEN "raised" ELSE "loop"
    /\ UNCHANGED <<varsCsv, varsNames, varsEvents, varsMerge, varsBatch>>

\* The end of the file: return sections_dict.
ReturnDict ==
    /\ split_pc = "loop"
    /\ split_pc' = "returned"
    /\ UNCHANGED <<sections_list, overwriting_risk, setup_number, sections_dict,
                   split_warnings, split_log>>
    /\ UNCHANGED <<varsCsv, varsNames, varsEvents, varsMerge, varsBatch>>

(***************************************************************************)
(* Idle values: the state of a component no call is made on                *)
(***************************************************************************)
Pending == [pending |-> TRUE]
IsPending(r) == "pending" \in DOMAIN r

IdleSplit ==
    /\ sections_list = << >>
    /\ overwriting_risk = FALSE
    /\ setup_number = ""
    /\ sections_dict = << >>
    /\ split_warnings = 0
    /\ split_log = << >>
    /\ split_pc = "idle"
IdleCsv == irregular_csv = << >> /\ csv_df = Pending
IdleNames == cols_in = << >> /\ cols_names = << >> /\ names_pc = "idle"
IdleEvents == events_df = Pending /\ new_events_df = Pending
IdleMerge == dasdict = << >> /\ new_cdf_dict = Pending
IdleBatch ==
    /\ export_format = ""
    /\ daszip_list = << >>
    /\ batch_i = 0
    /\ exported = << >>
    /\ batch_pc = "idle"

InitSplit ==
    InitSplitVars /\ IdleCsv /\ IdleNames /\ IdleEvents /\ IdleMerge /\ IdleBatch
NextSplit == ProcessSection \/ ReturnDict
SpecSplit == InitSplit /\ [][NextSplit]_vars

(***************************************************************************)
(* h_parse_irregular_csv as a call on a section body                       *)
(***************************************************************************)
MaxHeader == 2
MaxWidth == 4
MaxRows == 3

RECURSIVE JoinFields(_)
JoinFields(fields) ==
    IF Len(fields) = 1 THEN fields[1]
    ELSE fields[1] \o ";" \o JoinFields(Tail(fields))

\* The header line of h columns, and the k-th data line, of w cells
HeaderLine(h) == JoinFields([j \in 1..h |-> "col" \o ToString(j)])
RowLine(k, w) == JoinFields([j \in 1..w |-> "r" \o ToString(k) \o "c" \o ToString(j)])

InitCsv ==
    /\ \E h \in 1..MaxHeader, n \in 0..MaxRows :
         \E widths \in [1..n -> 1..MaxWidth] :
            irregular_csv = << HeaderLine(h) >> \o [k \in 1..n |-> RowLine(k, widths[k])]
    /\ csv_df = Pending
    /\ IdleSplit /\ IdleNames /\ IdleEvents /\ IdleMerge /\ IdleBatch

ParseIrregular ==
    /\ IsPending(csv_df)
    /\ csv_df' = h_parse_irregular_csv(irregular_csv)
    /\ UNCHANGED irregular_csv
    /\ UNCHANGED <<varsSplit, varsNames, varsEvents, varsMerge, varsBatch>>

NextCsv == ParseIrregular
SpecCsv == InitCsv /\ [][NextCsv]_vars

(***************************************************************************)
(* h_standardize_das_cdf_cols_names as a call on a pair of column names    *)
(***************************************************************************)
MaxReactor == 9

\* name with t inserted before position p (p = 0: name as it is)
InsertAt(name, p, t) ==
    IF p = 0 THEN name
    ELSE SubSeq(name, 1, p - 1) \o t \o SubSeq(name, p, Len(name))

\* The column of reactor d as the control software names it.  Version 4 writes
\* "Unit 1.XCO2 1.Out [%]", version 5 "Unit 1.XCO21.Out [%]" (the docstring's
\* examples); a name may also carry no unit digit of its own
\* ("Unit 1.InoculationTime []") or carry it before the unit bracket.
NameStyles == {"plain", "dot", "bracket"}
v4_column(name, d, style) ==
    "Unit " \o ToString(d) \o "." \o
        CASE style = "plain"   -> name
          [] style = "dot"     -> InsertAt(name, FindChar(name, ".", 1), " " \o ToString(d))
          [] style = "bracket" -> InsertAt(name, FindChar(name, "[", 1) - 1, ToString(d))
v5_column(name, d, style) ==
    "Unit " \o ToString(d) \o "." \o
        CASE style = "plain"   -> name
          [] style = "dot"     -> InsertAt(name, FindChar(name, ".", 1), ToString(d))
          [] style = "bracket" -> InsertAt(name, FindChar(name, "[", 1) - 1, ToString(d))

InitNames ==
    /\ \E p \in DOMAIN das_converter_dict, d4 \in 1..MaxReactor, d5 \in 1..MaxReactor,
          s4 \in NameStyles, s5 \in NameStyles :
            cols_in = << v4_column(das_converter_dict[p][1], d4, s4),
                         v5_column(das_converter_dict[p][2], d5, s5) >>
    /\ cols_names = cols_in
    /\ names_pc = "unit"
    /\ IdleSplit /\ IdleCsv /\ IdleEvents /\ IdleMerge /\ IdleBatch

\* line 302
StripUnitPrefix ==
    /\ names_pc = "unit"
    /\ cols_names' = MapSeq(sub_unit_prefix, cols_names)
    /\ names_pc' = "digit_dot"
    /\ UNCHANGED cols_in
    /\ UNCHANGED <<varsSplit, varsCsv, varsEvents, varsMerge, varsBatch>>
\* line 303
StripDigitDot ==
    /\ names_pc = "digit_dot"
    /\ cols_names' = MapSeq(sub_digit_dot, cols_names)
    /\ names_pc' = "digit_bracket"
    /\ UNCHANGED cols_in
    /\ UNCHANGED <<varsSplit, varsCsv, varsEvents, varsMerge, varsBatch>>
\* line 304
StripDigitBracket ==
    /\ names_pc = "digit_bracket"
    /\ cols_names' = MapSeq(sub_digit_bracket, cols_names)
    /\ names_pc' = "dict"
    /\ UNCHANGED cols_in
    /\ UNCHANGED <<varsSplit, varsCsv, varsEvents, varsMerge, varsBatch>>
\* lines 305-307
ReplaceByDict ==
    /\ names_pc = "dict"
    /\ cols_names' = MapSeq(dict_replace, cols_names)
    /\ names_pc' = "returned"
    /\ UNCHANGED cols_in
    /\ UNCHANGED <<varsSplit, varsCsv, varsEvents, varsMerge, varsBatch>>

NextNames == StripUnitPrefix \/ StripDigitDot \/ StripDigitBracket \/ ReplaceByDict
SpecNames == InitNames /\ [][NextNames]_vars

(***************************************************************************)
(* h_extract_volume_changes                                                *)
(***************************************************************************)
\* The position of a column in a DataFrame, or 0
ColumnIndex(columns, name) ==
    IF \E j \in DOMAIN columns : columns[j] = name
    THEN CHOOSE j \in DOMAIN columns : columns[j] = name
    ELSE 0
Column(df, name) == [k \in DOMAIN df.rows |-> df.rows[k][ColumnIndex(df.columns, name)]]

\* Series.str exists on a column of strings: a column with rows that are all
\* null is read as float64, and .str on it raises AttributeError.
HasStrAccessor(col) == col = << >> \/ \E k \in DOMAIN col : ~IsNull(col[k])

DigitValue(c) == CHOOSE n \in 0..9 : ToString(n) = c
IsDigits(t) == t # "" /\ \A i \in 1..Len(t) : CharAt(t, i) \in Digits
RECURSIVE DigitsValue(_)
DigitsValue(t) ==
    IF t = "" THEN 0
    ELSE 10 * DigitsValue(DropLast(t)) + DigitValue(LastChar(t))

\* float(t) for a decimal numeral, in hundredths: surrounding blanks are
\* dropped, a sign may lead, at most one point; anything else is ValueError.
\* Digits after the second decimal are not kept.
ParseFloat(t) ==
    LET u     == StripChars(t, Whitespace)
        neg   == Len(u) > 0 /\ CharAt(u, 1) = "-"
        body  == IF Len(u) > 0 /\ CharAt(u, 1) \in {"-", "+"}
                 THEN SubSeq(u, 2, Len(u)) ELSE u
        p     == FindChar(body, ".", 1)
        whole == IF p = 0 THEN body ELSE SubSeq(body, 1, p - 1)
        frac  == IF p = 0 THEN "" ELSE SubSeq(body, p + 1, Len(body))
        ok    == /\ whole \o frac # ""
                 /\ whole = "" \/ IsDigits(whole)
                 /\ frac = "" \/ IsDigits(frac)
        cents == DigitsValue(SubSeq(frac \o "00", 1, 2))
        mag   == 100 * DigitsValue(whole) + cents
    IN  IF ~ok THEN Raised("ValueError")
        ELSE [value |-> IF neg THEN 0 - mag ELSE mag]

\* Description.str[13:-13]
vol_slice_9(description) == SubSeq(description, 14, Len(description) - 9)
vol_slice(description) == SubSeq(description, 14, Len(description) - 13)

Abs(x) == IF x < 0 THEN 0 - x ELSE x

h_extract_volume_changes(df) ==
    LET di      == ColumnIndex(df.columns, "Description")
        desc    == Column(df, "Description")
        fltr    == [k \in DOMAIN desc |->
                       ~IsNull(desc[k]) /\ StartsWith(desc[k][1], "Added volume")]
        parsed  == [k \in DOMAIN desc |->
                       IF fltr[k] THEN ParseFloat(vol_slice(desc[k][1])) ELSE Pending]
        added   == [k \in DOMAIN desc |->
                       IF fltr[k] /\ parsed[k].value >= 0
                       THEN Val(parsed[k].value) ELSE NaN]
        removed == [k \in DOMAIN desc |->
                       IF fltr[k] /\ parsed[k].value < 0
                       THEN Val(Abs(parsed[k].value)) ELSE NaN]
    IN  IF di = 0 THEN Raised("KeyError")
        ELSE IF ~HasStrAccessor(desc) THEN Raised("AttributeError")
        ELSE IF \E k \in DOMAIN desc : fltr[k] /\ HasRaised(parsed[k])
             THEN Raised("ValueError")
        ELSE [columns |-> df.columns \o
                 << "Vol_added", "Liquid_added", "Vol_removed", "Feed_pump", "Feed_balance" >>,
              rows |-> [k \in DOMAIN df.rows |->
                          df.rows[k] \o << added[k], NaN, removed[k], NaN, NaN >>]]

(***************************************************************************)
(* pd.merge_ordered, inoctime, convert_dasdict_2_cdf_dict                  *)
(***************************************************************************)
RECURSIVE SortedSeq(_)
SortedSeq(S) ==
    IF S = {} THEN << >>
    ELSE LET m == CHOOSE x \in S : \A y \in S : x <= y
         IN  << m >> \o SortedSeq(S \ {m})

RECURSIVE Flatten(_)
Flatten(seqs) == IF seqs = << >> THEN << >> ELSE Head(seqs) \o Flatten(Tail(seqs))

\* seq without its i-th element
Without(seq, i) == [j \in 1..(Len(seq) - 1) |-> seq[IF j < i THEN j ELSE j + 1]]

\* The rows of one key, from the rows L of the left table and the rows R of the
\* right table that have it: the matching rows paired, or the rows of the one
\* side that has the key with nulls for the other side.
merge_block_inner(L, R, null_left, null_right, ri) ==
    IF L = << >> \/ R = << >> THEN << >>
    ELSE [n \in 1..(Len(L) * Len(R)) |->
             L[((n - 1) \div Len(R)) + 1] \o Without(R[((n - 1) % Len(R)) + 1], ri)]
merge_block(L, R, null_left, null_right, ri) ==
    IF L = << >> THEN [k \in DOMAIN R |-> null_left \o Without(R[k], ri)]
    ELSE IF R = << >> THEN [k \in DOMAIN L |-> L[k] \o null_right]
    ELSE [n \in 1..(Len(L) * Len(R)) |->
             L[((n - 1) \div Len(R)) + 1] \o Without(R[((n - 1) % Len(R)) + 1], ri)]

merge_on(left, right, li, ri, keys) ==
    [columns |-> left.columns \o Without(right.columns, ri),
     rows    |-> Flatten([n \in DOMAIN keys |->
                    merge_block(
                        SelectSeq(left.rows, LAMBDA r : r[li] = keys[n]),
                        SelectSeq(right.rows, LAMBDA r : r[ri] = keys[n]),
                        [j \in 1..Len(left.columns) |-> IF j = li THEN keys[n] ELSE NaN],
                        [j \in 1..(Len(right.columns) - 1) |-> NaN],
                        ri)])]

KeysOf(df, c) == {df.rows[k][c] : k \in DOMAIN df.rows}

\* pd.merge_ordered(left, right, on=on): how='outer', the keys ascending
merge_ordered(left, right, on) ==
    merge_on(left, right,
             ColumnIndex(left.columns, on), ColumnIndex(right.columns, on),
             SortedSeq(KeysOf(left, ColumnIndex(left.columns, on))
                       \cup KeysOf(right, ColumnIndex(right.columns, on))))

\* Series.first_valid_index() of the third column, 0 for None
first_row_index(cdf) == IF cdf.rows = << >> THEN 0 ELSE 1
first_valid_index(cdf) ==
    IF \E k \in DOMAIN cdf.rows : ~IsNull(cdf.rows[k][3])
    THEN CHOOSE k \in DOMAIN cdf.rows :
            /\ ~IsNull(cdf.rows[k][3])
            /\ \A j \in 1..(k - 1) : IsNull(cdf.rows[j][3])
    ELSE 0

\* timestamp - inoct for the row itime_idx (lines 204-210); .iloc[None] is a
\* TypeError
inoctime_at(cdf, itime_idx) ==
    IF itime_idx = 0 THEN Raised("TypeError")
    ELSE [delta |-> [k \in DOMAIN cdf.rows |->
                        Val(cdf.rows[k][1] - cdf.rows[itime_idx][1])]]

\* inoctime(cdf) with itime=None
inoctime(cdf) == inoctime_at(cdf, first_valid_index(cdf))

\* df[name] = column: in place when the column exists, appended otherwise
set_column_at(df, name, column, c) ==
    IF c = 0
    THEN [columns |-> Append(df.columns, name),
          rows |-> [k \in DOMAIN df.rows |-> Append(df.rows[k], column[k])]]
    ELSE [columns |-> df.columns,
          rows |-> [k \in DOMAIN df.rows |-> [df.rows[k] EXCEPT ![c] = column[k]]]]
set_column(df, name, column) ==
    set_column_at(df, name, column, ColumnIndex(df.columns, name))

\* fltr_reactor_events for one row's Reference (lines 144-148)
fltr_reactor_events_lenient(ref, reactor_num, strict) ==
    (~IsNull(ref) /\ Contains(ref[1], "Unit " \o reactor_num)) \/ IsNull(ref)
fltr_reactor_events(ref, reactor_num, strict) ==
    \/ ~IsNull(ref) /\ Contains(ref[1], "Unit " \o reactor_num)
    \/ ~strict /\ IsNull(ref)

\* events_df[fltr_reactor_events], c the position of Reference
reactor_events_at(events, reactor_num, strict, c) ==
    [columns |-> events.columns,
     rows |-> SelectSeq(events.rows,
                 LAMBDA r : fltr_reactor_events(r[c], reactor_num, strict))]
reactor_events(events, reactor_num, strict) ==
    reactor_events_at(events, reactor_num, strict,
                      ColumnIndex(events.columns, "Reference"))

\* Line 153 on the table of line 150: the table of line 150 and the table
\* stored in new_cdf_dict
with_inoctime(cdf_merged, inoct) ==
    IF HasRaised(inoct) THEN inoct
    ELSE [merged |-> cdf_merged,
          cdf |-> set_column(cdf_merged, "InoculationTime []", inoct.delta)]
recompute_inoctime(cdf_merged) == with_inoctime(cdf_merged, inoctime(cdf_merged))

\* One pass of the loop (lines 143-154)
reactor_cdf(reactor_data, events, reactor_num, strict) ==
    recompute_inoctime(
        merge_ordered(reactor_data, reactor_events(events, reactor_num, strict),
                      "Timestamp"))

\* new_cdf_dict from the passes of the loop, cdfs the result of each
collect_cdfs(tracks, cdfs) ==
    IF \E x \in tracks : HasRaised(cdfs[x])
    THEN cdfs[CHOOSE x \in tracks : HasRaised(cdfs[x])]
    ELSE [cdfs |-> [n \in {DigitValue(LastChar(x)) : x \in tracks} |->
                       cdfs[CHOOSE x \in tracks : DigitValue(LastChar(x)) = n]]]

\* Lines 140-156, events the table of line 139
merge_events(dd, strict, tracks, events) ==
    IF HasRaised(events) THEN events
    ELSE IF tracks = {} THEN [cdfs |-> << >>]
    ELSE IF ColumnIndex(events.columns, "Reference") = 0 THEN Raised("KeyError")
    ELSE IF ~HasStrAccessor(Column(events, "Reference")) THEN Raised("AttributeError")
    ELSE IF \E x \in tracks : LastChar(x) \notin Digits THEN Raised("ValueError")
    ELSE collect_cdfs(tracks,
            [x \in tracks |-> reactor_cdf(dd[x], events, LastChar(x), strict)])

convert_dasdict_2_cdf_dict(dd, strict) ==
    IF "Events" \notin DOMAIN dd THEN Raised("KeyError")
    ELSE merge_events(dd, strict,
                      {x \in DOMAIN dd : StartsWith(x, "TrackData")},
                      h_extract_volume_changes(dd["Events"]))

(***************************************************************************)
(* read_daszip, extract, export_all                                        *)
(***************************************************************************)
\* An archive is a record: name, whether ZipFile can open it, the names of
\* its members, and the names of the sections of its Control.csv member.

\* read_daszip: BadZipFile when the archive cannot be opened, IndexError
\* (positives[0]) when no member matches the pattern
read_daszip(zip, pattern) ==
    IF ~zip.readable THEN Raised("BadZipFile")
    ELSE IF SelectSeq(zip.members, LAMBDA m : Contains(m, pattern)) = << >>
         THEN Raised("IndexError")
    ELSE [member |-> Head(SelectSeq(zip.members, LAMBDA m : Contains(m, pattern)))]

\* extract(daszip), as far as it can raise: dasdict["Events"] is a KeyError
\* when the file has no Events section
extract_of(zip, internal_file) ==
    IF HasRaised(internal_file) THEN internal_file
    ELSE IF "Events" \notin zip.sections THEN Raised("KeyError")
    ELSE [reactors |-> {DigitValue(LastChar(x)) :
                           x \in {y \in zip.sections : StartsWith(y, "TrackData")}}]
extract(zip) == extract_of(zip, read_daszip(zip, "Control.csv"))

\* os.path.splitext(daszip)[0]
das_name(zip) == SubSeq(zip.name, 1, Len(zip.name) - 4)

\* The files written for one archive: a workbook, or a csv file per reactor
export_files(zip, cdf_dict, format) ==
    IF format = "xlsx" THEN << das_name(zip) \o ".xlsx" >>
    ELSE [k \in DOMAIN SortedSeq(cdf_dict.reactors) |->
             das_name(zip) \o "-" \o ToString(SortedSeq(cdf_dict.reactors)[k]) \o ".csv"]

(***************************************************************************)
(* Claims on convert_daszip_2_dasdict (SpecSplit)                          *)
(***************************************************************************)
\* The name of the k-th section handled, as the file gives it
RawName(k) == StripChars(sections_list[k][1], {"[", "\"", "]"})
IsSetupDigit(name) ==
    Len(name) = 6 /\ Prefix(name, 5) = "Setup" /\ LastChar(name) \in Digits
\* The section that opened the setup block the k-th section lies in: the last
\* Setup<digit> section before k that was reached with the flag false
Opener(k) ==
    CHOOSE j \in 1..(k - 1) :
        /\ IsSetupDigit(RawName(j)) /\ ~split_log[j].risk_before
        /\ \A i \in (j + 1)..(k - 1) :
              ~(IsSetupDigit(RawName(i)) /\ ~split_log[i].risk_before)
OpenSuffix(k) == LastChar(RawName(Opener(k)))

\* C1: every section encountered while the 'inside a numbered setup block'
\* flag is true is stored under its name with that setup's numeric suffix
\* appended, so that two same-named sections lying in two different setup
\* blocks (Setup1 ..., Setup2 ...) are stored under distinct keys and neither
\* overwrites the other.
C1_SetupSuffixAppended ==
    /\ \A k \in DOMAIN split_log :
          (/\ split_log[k].risk_before
           /\ split_log[k].stored
           /\ ~IsSetupDigit(RawName(k)))
          => split_log[k].key = RawName(k) \o OpenSuffix(k)
    /\ \A j, k \in DOMAIN split_log :
          (/\ j < k
           /\ RawName(j) = RawName(k)
           /\ ~IsSetupDigit(RawName(k))
           /\ split_log[j].risk_before /\ split_log[k].risk_before
           /\ split_log[j].stored /\ split_log[k].stored
           /\ OpenSuffix(j) # OpenSuffix(k))
          => /\ split_log[j].key # split_log[k].key
             /\ {split_log[j].key, split_log[k].key} \subseteq DOMAIN sections_dict

\* C9: a section with a header line but no data rows, and a section with an
\* empty body, produce no entry in the DasDict and raise no error; a section
\* with at least one data row produces an entry.
C9_EmptySectionsOmitted ==
    /\ split_pc # "raised"
    /\ \A k \in DOMAIN split_log :
          LET body == Tail(sections_list[k])
          IN  /\ Len(body) <= 1 => ~split_log[k].stored
              /\ Len(body) >= 2 => split_log[k].stored

\* C10: the flag starts false, becomes true at a Setup<digit> section (never
\* at Setups) and false at a section whose name starts with Profiles; the
\* warning is emitted exactly when a Setup<digit> section is reached while the
\* flag is true, and then splitting continues and the numeric suffix of the
\* open block is reused.
C10_SetupFlagProtocol ==
    /\ split_log = << >> => ~overwriting_risk
    /\ split_log # << >> => overwriting_risk = split_log[Len(split_log)].risk_after
    /\ split_warnings = Cardinality({k \in DOMAIN split_log : split_log[k].warned})
    /\ \A k \in DOMAIN split_log :
          LET e == split_log[k]
              name == RawName(k)
          IN  /\ e.risk_before = (IF k = 1 THEN FALSE ELSE split_log[k - 1].risk_after)
              /\ e.risk_after = (IF IsSetupDigit(name) THEN TRUE
                                 ELSE IF StartsWith(name, "Profiles") THEN FALSE
                                 ELSE e.risk_before)
              /\ name = "Setups" => e.risk_after = e.risk_before
              /\ e.warned = (IsSetupDigit(name) /\ e.risk_before)
              /\ e.warned => /\ split_pc # "raised"
                             /\ e.number = OpenSuffix(k)

\* The part of C10 on the flag and the warning alone
C10_FlagAndWarningOnly ==
    /\ split_log = << >> => ~overwriting_risk
    /\ split_log # << >> => overwriting_risk = split_log[Len(split_log)].risk_after
    /\ split_warnings = Cardinality({k \in DOMAIN split_log : split_log[k].warned})
    /\ \A k \in DOMAIN split_log :
          LET e == split_log[k]
              name == RawName(k)
          IN  /\ e.risk_before = (IF k = 1 THEN FALSE ELSE split_log[k - 1].risk_after)
              /\ e.risk_after = (IF IsSetupDigit(name) THEN TRUE
                                 ELSE IF StartsWith(name, "Profiles") THEN FALSE
                                 ELSE e.risk_before)
              /\ e.warned = (IsSetupDigit(name) /\ e.risk_before)

(***************************************************************************)
(* h_extract_volume_changes as a call on an Events table                   *)
(***************************************************************************)
MaxEvents == 2

\* The volumes the log messages carry: the numeral, and its value in hundredths
VolumePool == { <<"5.00", 500>>, <<"-5.00", 0 - 500>>, <<"12.50", 1250>>, <<"-0.75", 0 - 75>> }
\* What follows the numeral: the template of the specification's example, and
\* one that is 13 characters long
TailSpec == " mL total"
Tail13 == " mL in total."
VolumeDescriptions ==
    { "Added volume " \o v[1] \o t : v \in VolumePool, t \in {TailSpec, Tail13} }
OtherDescriptions == { "Inoculation", "Sample taken" }
DescriptionPool ==
    { Val(d) : d \in VolumeDescriptions \cup OtherDescriptions } \cup { NaN }

EventsColumns == << "Timestamp", "Reference", "Description" >>

InitEvents ==
    /\ \E n \in 0..MaxEvents :
         \E descs \in [1..n -> DescriptionPool] :
            events_df = [columns |-> EventsColumns,
                         rows |-> [k \in 1..n |-> << k, NaN, descs[k] >>]]
    /\ new_events_df = Pending
    /\ IdleSplit /\ IdleCsv /\ IdleNames /\ IdleMerge /\ IdleBatch

ExtractVolumeChanges ==
    /\ IsPending(new_events_df)
    /\ new_events_df' = h_extract_volume_changes(events_df)
    /\ UNCHANGED events_df
    /\ UNCHANGED <<varsSplit, varsCsv, varsNames, varsMerge, varsBatch>>

NextEvents == ExtractVolumeChanges
SpecEvents == InitEvents /\ [][NextEvents]_vars

(***************************************************************************)
(* convert_dasdict_2_cdf_dict as calls, strict and lenient, on one DasDict *)
(***************************************************************************)
MaxT == 2

TrackColumns == << "Timestamp", "Duration", "InoculationTime []" >>
ReferencePool == { NaN, Val("Unit 1"), Val("Unit 2") }

\* A reactor's time series: ascending timestamps, the inoculation marker of
\* each row null or not
TrackTable(times, marker) ==
    LET ts == SortedSeq(times)
    IN  [columns |-> TrackColumns,
         rows |-> [k \in DOMAIN ts |-> << ts[k], Val(10 * ts[k]), marker[ts[k]] >>]]

\* The log's message for an event: a volume addition on a unit, a note otherwise
LoggedDescription(ref) ==
    IF IsNull(ref) THEN Val("Inoculation") ELSE Val("Added volume 5.00" \o Tail13)

\* Both reactors are sampled at the same instants; the log is chronological.
InitMerge ==
    /\ \E times \in (SUBSET (1..MaxT)) \ {{}} :
         \E marker \in [times -> {NaN, Val(0)}] :
           \E n \in 0..MaxEvents :
             \E ts \in [1..n -> 1..MaxT], ref \in [1..n -> ReferencePool] :
                /\ \A k \in 1..(n - 1) : ts[k] <= ts[k + 1]
                /\ dasdict =
                     [x \in {"TrackData1", "TrackData2", "Events"} |->
                        CASE x = "TrackData1" -> TrackTable(times, marker)
                          [] x = "TrackData2" -> TrackTable(times, [t \in times |-> Val(0)])
                          [] x = "Events" ->
                               [columns |-> EventsColumns,
                                rows |-> [k \in 1..n |->
                                            << ts[k], ref[k], LoggedDescription(ref[k]) >>]]]
    /\ new_cdf_dict = [strict |-> Pending, lenient |-> Pending]
    /\ IdleSplit /\ IdleCsv /\ IdleNames /\ IdleEvents /\ IdleBatch

\* convert_dasdict_2_cdf_dict(dasdict, strict=True)
ConvertStrict ==
    /\ IsPending(new_cdf_dict.strict)
    /\ new_cdf_dict' = [new_cdf_dict EXCEPT
                           !.strict = convert_dasdict_2_cdf_dict(dasdict, TRUE)]
    /\ UNCHANGED dasdict
    /\ UNCHANGED <<varsSplit, varsCsv, varsNames, varsEvents, varsBatch>>
\* convert_dasdict_2_cdf_dict(dasdict, strict=False)
ConvertLenient ==
    /\ IsPending(new_cdf_dict.lenient)
    /\ new_cdf_dict' = [new_cdf_dict EXCEPT
                           !.lenient = convert_dasdict_2_cdf_dict(dasdict, FALSE)]
    /\ UNCHANGED dasdict
    /\ UNCHANGED <<varsSplit, varsCsv, varsNames, varsEvents, varsBatch>>

NextMerge == ConvertStrict \/ ConvertLenient
SpecMerge == InitMerge /\ [][NextMerge]_vars

(***************************************************************************)
(* export_all on the archives of the working directory                     *)
(***************************************************************************)
MaxArchives == 3

ArchivePool ==
    { [name |-> "run1.zip", readable |-> TRUE,
       members |-> << "run1.Control.csv" >>,
       sections |-> {"TrackData1", "TrackData2", "Events"}],
      [name |-> "run2.zip", readable |-> TRUE,
       members |-> << "notes.txt", "run2.Control.csv", "old.Control.csv" >>,
       sections |-> {"TrackData1", "Events"}],
      [name |-> "nomember.zip", readable |-> TRUE,
       members |-> << "notes.txt" >>,
       sections |-> {}],
      [name |-> "noevents.zip", readable |-> TRUE,
       members |-> << "x.Control.csv" >>,
       sections |-> {"TrackData1"}],
      [name |-> "broken.zip", readable |-> FALSE,
       members |-> << >>,
       sections |-> {}] }

IsInjective(seq) == \A i, j \in DOMAIN seq : i # j => seq[i] # seq[j]

\* glob.glob("*.zip"): the archives found, each once, in any order
InitBatch ==
    /\ export_format \in {"xlsx", "csv", "pdf"}
    /\ \E n \in 0..MaxArchives :
         \E list \in [1..n -> ArchivePool] :
            IsInjective(list) /\ daszip_list = list
    /\ batch_i = 0
    /\ exported = << >>
    /\ batch_pc = "start"
    /\ IdleSplit /\ IdleCsv /\ IdleNames /\ IdleEvents /\ IdleMerge

\* lines 338-343
CheckFormat ==
    /\ batch_pc = "start"
    /\ batch_pc' = IF export_format \in {"csv", "xlsx"} THEN "loop" ELSE "returned"
    /\ UNCHANGED <<export_format, daszip_list, batch_i, exported>>
    /\ UNCHANGED <<varsSplit, varsCsv, varsNames, varsEvents, varsMerge>>

\* One pass of the loop of lines 345-357: an exception of extract is not
\* caught and leaves export_all.
ExportNext ==
    /\ batch_pc = "loop"
    /\ batch_i < Len(daszip_list)
    /\ batch_i' = batch_i + 1
    /\ LET zip == daszip_list[batch_i + 1]
       IN  IF HasRaised(extract(zip))
           THEN batch_pc' = "raised" /\ exported' = exported
           ELSE /\ batch_pc' = "loop"
                /\ exported' = exported \o export_files(zip, extract(zip), export_format)
    /\ UNCHANGED <<export_format, daszip_list>>
    /\ UNCHANGED <<varsSplit, varsCsv, varsNames, varsEvents, varsMerge>>

\* The list is exhausted.
FinishBatch ==
    /\ batch_pc = "loop"
    /\ batch_i = Len(daszip_list)
    /\ batch_pc' = "returned"
    /\ UNCHANGED <<export_format, daszip_list, batch_i, exported>>
    /\ UNCHANGED <<varsSplit, varsCsv, varsNames, varsEvents, varsMerge>>

NextBatch == CheckFormat \/ ExportNext \/ FinishBatch
SpecBatch == InitBatch /\ [][NextBatch]_vars

(***************************************************************************)
(* Claims on h_parse_irregular_csv (SpecCsv)                               *)
(***************************************************************************)
CsvHeader == SplitOn(irregular_csv[1], ";")
CsvData == [k \in 1..(Len(irregular_csv) - 1) |-> SplitOn(irregular_csv[k + 1], ";")]
\* H, and M: the width of the longest data row
CsvH == Len(CsvHeader)
CsvM == CHOOSE m \in {Len(CsvData[k]) : k \in DOMAIN CsvData} :
            \A k \in DOMAIN CsvData : Len(CsvData[k]) <= m

\* C3: for a body whose header has H columns and whose longest data row has
\* M >= H columns, the table has exactly M columns in every row, its column
\* names are the header names followed by unknown1..unknown(M-H), and it has
\* one row per data row, each with all the cells of the data row.
C3_IrregularCsvShape ==
    (~IsPending(csv_df) /\ CsvData # << >> /\ CsvM >= CsvH) =>
        /\ ~HasRaised(csv_df)
        /\ Len(csv_df.columns) = CsvM
        /\ csv_df.columns =
              CsvHeader \o [i \in 1..(CsvM - CsvH) |-> "unknown" \o ToString(i)]
        /\ Len(csv_df.rows) = Len(CsvData)
        /\ \A k \in DOMAIN CsvData :
              /\ Len(csv_df.rows[k]) = CsvM
              /\ \A j \in 1..CsvM :
                    csv_df.rows[k][j] =
                        IF j <= Len(CsvData[k]) THEN Val(CsvData[k][j]) ELSE NaN

\* A parsed body whose widest row is neither the first data row nor as narrow
\* as the header
C3_Witness ==
    /\ ~IsPending(csv_df) /\ ~HasRaised(csv_df)
    /\ Len(CsvData) >= 2
    /\ CsvM > CsvH
    /\ Len(CsvData[1]) < CsvM
    /\ Len(csv_df.columns) = CsvM

(***************************************************************************)
(* Claims on h_standardize_das_cdf_cols_names (SpecNames)                  *)
(***************************************************************************)
\* C7: for every pair (v4 name, v5 name) of the lookup table and all reactor
\* digits d, d' in 1..9, the version-4 column of reactor d and the version-5
\* column of reactor d' normalize to the same name, the v5 name without any
\* reactor reference.
C7_CanonicalAcrossVersions ==
    names_pc = "returned" =>
        \A p \in DOMAIN das_converter_dict, d4 \in 1..MaxReactor, s4 \in NameStyles :
            cols_in[1] = v4_column(das_converter_dict[p][1], d4, s4)
            => cols_names = << das_converter_dict[p][2], das_converter_dict[p][2] >>

C7_Witness ==
    /\ names_pc = "returned"
    /\ cols_in = << "Unit 3.pH 3.Out []", "Unit 7.pH7.Out [%]" >>
    /\ cols_names = << "pH.Out [%]", "pH.Out [%]" >>

(***************************************************************************)
(* Claims on h_extract_volume_changes (SpecEvents)                         *)
(***************************************************************************)
EventDescription(k) == events_df.rows[k][3]
HasVolumePrefix(d) == ~IsNull(d) /\ StartsWith(d[1], "Added volume")
\* Vol_added and Vol_removed of the k-th row of the result
OutVolAdded(k) == new_events_df.rows[k][4]
OutVolRemoved(k) == new_events_df.rows[k][6]
VolumeRowAsClaimed(k, v) ==
    /\ v[2] > 0 => OutVolAdded(k) = Val(v[2]) /\ IsNull(OutVolRemoved(k))
    /\ v[2] < 0 => OutVolRemoved(k) = Val(0 - v[2]) /\ IsNull(OutVolAdded(k))
AllOtherDescriptions ==
    \A k \in DOMAIN events_df.rows :
        ~IsNull(EventDescription(k)) /\ ~HasVolumePrefix(EventDescription(k))

VolumeRows13 ==
    /\ \A k \in DOMAIN events_df.rows :
          HasVolumePrefix(EventDescription(k))
          => \E v \in VolumePool :
                EventDescription(k) = Val("Added volume " \o v[1] \o Tail13)
    /\ \/ events_df.rows = << >>
       \/ \E k \in DOMAIN events_df.rows : ~IsNull(EventDescription(k))

Modes == {"strict", "lenient"}
Reactors == {1, 2}
\* The call of this mode has returned a dictionary
Produced(mode) ==
    ~IsPending(new_cdf_dict[mode]) /\ ~HasRaised(new_cdf_dict[mode])
\* The merged table of reactor n, and the table of line 150 it was made from
OutRows(mode, n) == new_cdf_dict[mode].cdfs[n].cdf.rows
MergedRows(mode, n) == new_cdf_dict[mode].cdfs[n].merged.rows
ReactorRows(n) == dasdict["TrackData" \o ToString(n)].rows
\* The rows of Events attributed to reactor n in this mode
Unattributed(e) == IsNull(e[2])
AttributedEvents(mode, n) ==
    SelectSeq(dasdict["Events"].rows,
        LAMBDA e : \/ ~IsNull(e[2]) /\ Contains(e[2][1], "Unit " \o ToString(n))
                   \/ mode = "lenient" /\ Unattributed(e))
\* An output row carries a reactor row (its Duration), an event (its
\* Description), this reactor row, this event
HasReactorPart(r) == ~IsNull(r[2])
HasEventPart(r) == ~IsNull(r[5])
CarriesReactorRow(r, x) == r[1] = x[1] /\ r[2] = x[2]
CarriesEvent(r, e) == r[1] = e[1] /\ r[4] = e[2] /\ r[5] = e[3]
EventColumnsNull(r) == \A c \in 4..10 : IsNull(r[c])

ReferenceRow(mode, n) ==
    CHOOSE k \in DOMAIN MergedRows(mode, n) :
        /\ ~IsNull(MergedRows(mode, n)[k][3])
        /\ \A j \in 1..(k - 1) : IsNull(MergedRows(mode, n)[j][3])

\* C5: the reference instant is the timestamp of the first row of the merged
\* table whose third column is not null, and every row's InoculationTime is
\* its timestamp minus the reference instant: zero at the reference row,
\* negative on rows with earlier timestamps, non-decreasing down the table,
\* also when event-only rows precede the first reactor row.
C5_InoculationTime ==
    \A mode \in Modes, n \in Reactors :
        Produced(mode) =>
            LET out == OutRows(mode, n)
                m   == MergedRows(mode, n)
            IN  /\ \E k \in DOMAIN m : ~IsNull(m[k][3])
                /\ Len(out) = Len(m)
                /\ \A k \in DOMAIN out :
                      /\ out[k][1] = m[k][1]
                      /\ out[k][3] = Val(out[k][1] - m[ReferenceRow(mode, n)][1])
                      /\ out[k][1] < m[ReferenceRow(mode, n)][1] => out[k][3][1] < 0
                /\ out[ReferenceRow(mode, n)][3] = Val(0)
                /\ \A k \in 1..(Len(out) - 1) : out[k][3][1] <= out[k + 1][3][1]
                /\ \E i \in DOMAIN ReactorRows(n) :
                      /\ ~IsNull(ReactorRows(n)[i][3])
                      /\ ReactorRows(n)[i][1] = m[ReferenceRow(mode, n)][1]
                      /\ \A h \in 1..(i - 1) : IsNull(ReactorRows(n)[h][3])

\* An event-only row ahead of the reference row, with a negative time
C5_Witness ==
    /\ Produced("strict")
    /\ ReferenceRow("strict", 1) > 1
    /\ ~HasReactorPart(OutRows("strict", 1)[1])
    /\ OutRows("strict", 1)[1][3][1] < 0

SomeUnattributed == \E k \in DOMAIN dasdict["Events"].rows :
                        Unattributed(dasdict["Events"].rows[k])
\* The row carries an event whose Reference is null
CarriesUnattributed(r) == HasEventPart(r) /\ IsNull(r[4])
InRows(r, rows) == \E k \in DOMAIN rows : rows[k] = r

C8_BatchSurvivesFatalArchive ==
    (batch_pc \in {"returned", "raised"} /\ export_format \in {"csv", "xlsx"}) =>
        \A i \in DOMAIN daszip_list :
            ~HasRaised(extract(daszip_list[i]))
            => \E f \in DOMAIN exported :
                  StartsWith(exported[f], das_name(daszip_list[i]))

====
